---------------------------- MODULE Spec2Model ----------------------------
(***************************************************************************)
(* Model of cdo_local_uuid (src/cdo_local_uuid/__init__.py): the module    *)
(* globals DEMO_UUID_BASE and DEMO_UUID_COUNTER, and the functions         *)
(* configure(), _demo_uuid() and local_uuid().                             *)
(*                                                                         *)
(* Text is modelled as a sequence of tokens.  The separator "/" and the    *)
(* dot "." are tokens of their own; every other token stands for a run of  *)
(* characters holding neither (a file name, "example.org", a digit).       *)
(* An optional value (Python's Optional[...]) is None == <<>> or <<v>>.    *)
(***************************************************************************)
EXTENDS Integers, Sequences, FiniteSets, TLC

VARIABLES
    environ,            \* os.environ: variable name -> optional text
    cwd,                \* os.getcwd(): text
    argv,               \* sys.argv: sequence of text
    DEMO_UUID_BASE,     \* module global, optional text
    DEMO_UUID_COUNTER,  \* module global, int
    last,               \* outcome of the last call made by the main thread
    seen,               \* one arbitrary earlier return of _demo_uuid(), or None
    runs,               \* two separate process runs: each one's globals and output
    threads             \* concurrent callers of local_uuid(): position and locals

vars == <<environ, cwd, argv, DEMO_UUID_BASE, DEMO_UUID_COUNTER, last, seen,
          runs, threads>>

-----------------------------------------------------------------------------
(* Bounds of the model. *)

\* DEMO_UUID_COUNTER is unbounded in the code; generation stops here.
MaxCounter == 2

\* Calls of local_uuid() each of the two compared process runs makes.
MaxRunCalls == 11

\* Distinct values the random source of uuid.uuid4() can yield.
NRand == 2

\* Calls of local_uuid() each concurrent thread makes.
MaxCalls == 2

-----------------------------------------------------------------------------
(* Optional values. *)

None == <<>>

Some(v) == <<v>>

Val(o) == o[1]

-----------------------------------------------------------------------------
(* Text. *)

SEP == "/"

DOT == "."

\* str(int) for a non-negative int: its decimal digits.
Digit == <<"0", "1", "2", "3", "4", "5", "6", "7", "8", "9">>

RECURSIVE IntStr(_)
IntStr(n) ==
    IF n < 10 THEN <<Digit[n + 1]>>
    ELSE IntStr(n \div 10) \o <<Digit[(n % 10) + 1]>>

\* "/".join(parts)
RECURSIVE JoinSep(_)
JoinSep(parts) ==
    IF parts = <<>> THEN <<>>
    ELSE IF Len(parts) = 1 THEN parts[1]
    ELSE parts[1] \o <<SEP>> \o JoinSep(Tail(parts))

\* s.split("/")
RECURSIVE SplitSep(_)
SplitSep(s) ==
    IF \A i \in 1..Len(s) : s[i] # SEP THEN <<s>>
    ELSE LET i == CHOOSE j \in 1..Len(s) :
                      s[j] = SEP /\ \A k \in 1..(j - 1) : s[k] # SEP
         IN  <<SubSeq(s, 1, i - 1)>> \o SplitSep(SubSeq(s, i + 1, Len(s)))

-----------------------------------------------------------------------------
(* pathlib.  A path is [root, parts]: whether it starts at "/", and its     *)
(* components, each a text holding no separator.                            *)

DOTDOT == <<DOT, DOT>>

\* The components pathlib keeps when it parses: not empty, not ".".
KeptPart(c) == c # <<>> /\ c # <<DOT>>

\* pathlib.Path(s)
Path(s) ==
    [root  |-> (s # <<>> /\ s[1] = SEP),
     parts |-> SelectSeq(SplitSep(s), KeptPart)]

\* str(path)
PathStr(p) ==
    IF p.root THEN <<SEP>> \o JoinSep(p.parts)
    ELSE IF p.parts = <<>> THEN <<DOT>>
    ELSE JoinSep(p.parts)

\* The file system the process runs in: directories, regular files and one
\* symbolic link, /l -> /w.  A location is the sequence of its components.
Dirs ==
    { <<>>, << <<"w">> >>, << <<"w">>, <<"s">> >>,
      << <<"v">> >>, << <<"v">>, <<"b">> >> }

Files == { << <<"w">>, <<"f">> >>, << <<"v">>, <<"b">>, <<"t">> >> }

Links == { << <<"l">> >> }

ReadLink(loc) == << <<"w">> >>

Kind(loc) ==
    IF loc \in Dirs THEN "dir" ELSE IF loc \in Files THEN "file" ELSE "none"

Parent(loc) == IF loc = <<>> THEN <<>> ELSE SubSeq(loc, 1, Len(loc) - 1)

\* os.path.realpath, not strict: a left-to-right walk that follows links and
\* folds "..", keeping the components that do not exist.
RECURSIVE JoinRealPath(_, _)
JoinRealPath(loc, rest) ==
    IF rest = <<>> THEN loc
    ELSE LET name == Head(rest)
             new  == Append(loc, name)
         IN  IF name = DOTDOT THEN JoinRealPath(Parent(loc), Tail(rest))
             ELSE IF new \in Links
                  THEN JoinRealPath(JoinRealPath(<<>>, ReadLink(new)), Tail(rest))
             ELSE JoinRealPath(new, Tail(rest))

\* path.resolve() in a process whose working directory is wd
Resolve(p, wd) ==
    [root  |-> TRUE,
     parts |-> JoinRealPath(IF p.root THEN <<>> ELSE JoinRealPath(<<>>, Path(wd).parts),
                            p.parts)]

\* os.stat: the kind of what the walk ends at, "none" when a step fails.
RECURSIVE StatWalk(_, _)
StatWalk(loc, rest) ==
    IF rest = <<>> THEN Kind(loc)
    ELSE IF Kind(loc) # "dir" THEN "none"
    ELSE LET name == Head(rest)
             new  == Append(loc, name)
         IN  IF name = DOTDOT THEN StatWalk(Parent(loc), Tail(rest))
             ELSE IF new \in Links
                  THEN StatWalk(JoinRealPath(<<>>, ReadLink(new)), Tail(rest))
             ELSE StatWalk(new, Tail(rest))

Stat(p, wd) ==
    StatWalk(IF p.root THEN <<>> ELSE JoinRealPath(<<>>, Path(wd).parts), p.parts)

\* path.exists()
Exists(p, wd) == Stat(p, wd) # "none"

\* path.is_dir()
IsDir(p, wd) == Stat(p, wd) = "dir"

\* path.relative_to(other): ok is FALSE where pathlib raises ValueError.
RelativeTo(p, other) ==
    LET n  == Len(other.parts)
        ok == /\ p.root = other.root
              /\ n <= Len(p.parts)
              /\ SubSeq(p.parts, 1, n) = other.parts
    IN  [ok   |-> ok,
         path |-> [root  |-> FALSE,
                   parts |-> IF ok THEN SubSeq(p.parts, n + 1, Len(p.parts))
                             ELSE <<>>]]

-----------------------------------------------------------------------------
(* uuid.  The hash of uuid5 is taken as collision-free: an identifier is   *)
(* the record of what it was derived from.  str(uuid.UUID) is one-to-one   *)
(* and is not modelled apart from the identifier.                          *)

NAMESPACE_URL == "6ba7b811-9dad-11d1-80b4-00c04fd430c8"

\* uuid.uuid5(namespace, name)
uuid5(namespace, name) ==
    [version |-> 5, namespace |-> namespace, name |-> name, bits |-> 0]

\* uuid.uuid4(), the random source yielding bits
uuid4(bits) ==
    [version |-> 4, namespace |-> "", name |-> <<>>, bits |-> bits]

RandomBits == 1..NRand

-----------------------------------------------------------------------------
(* The process context: environment, working directory, argument vector.   *)

REQUESTING == "DEMO_UUID_REQUESTING_NONRANDOM"

UUID_BASE == "CASE_DEMO_NONRANDOM_UUID_BASE"

VIRTUAL_ENV == "VIRTUAL_ENV"

EnvNames == {REQUESTING, UUID_BASE, VIRTUAL_ENV}

NONRANDOM_REQUESTED == <<"NONRANDOM_REQUESTED">>

\* os.getenv(name)
getenv(env, name) == env[name]

\* Values the context is drawn from.
EnvValues(name) ==
    IF name = REQUESTING THEN {None, Some(NONRANDOM_REQUESTED), Some(<<"1">>)}
    ELSE IF name = UUID_BASE
         THEN {None,
               Some(<<SEP, "w">>),              \* a directory
               Some(<<SEP, "l">>),              \* a link to that directory
               Some(<<SEP, "w", SEP, "f">>),    \* a regular file
               Some(<<SEP, "n">>)}              \* nothing
    ELSE {None, Some(<<SEP, "v">>)}

WorkDirs == { <<SEP, "w">>, <<SEP, "w", SEP, "s">>, <<SEP, "v", SEP, "b">> }

ArgVectors ==
    { << <<"t">> >>,
      << <<DOT, SEP, "t">>, <<"a", SEP, "b">>, <<"c">> >> }

Environs == { e \in [EnvNames -> UNION {EnvValues(n) : n \in EnvNames}] :
                \A n \in EnvNames : e[n] \in EnvValues(n) }

-----------------------------------------------------------------------------
(* The functions of the module, each as the result of one call.            *)

NoWarning == ""

\* Variant: the base directory taken as named, links not followed.
demo_uuid_base_parts_unresolved(env, wd, av) ==
    LET base_dir_original_path == Path(Val(getenv(env, UUID_BASE)))
        srcdir_resolved_path == Resolve(Path(wd), wd)
        srcdir_relative == RelativeTo(srcdir_resolved_path, base_dir_original_path)
        srcdir_part == IF srcdir_relative.ok THEN PathStr(srcdir_relative.path)
                       ELSE PathStr(srcdir_resolved_path)
        env_venv_name == getenv(env, VIRTUAL_ENV)
        command_resolved_path == Resolve(Path(av[1]), wd)
        venv_resolved_path == Resolve(Path(Val(env_venv_name)), wd)
        command_relative == RelativeTo(command_resolved_path, venv_resolved_path)
        command_part == IF env_venv_name = None THEN av[1]
                        ELSE IF command_relative.ok
                             THEN PathStr(command_relative.path)
                        ELSE PathStr(command_resolved_path)
    IN  << <<"example.org">>, srcdir_part, command_part >>
            \o (IF Len(av) > 1 THEN Tail(av) ELSE <<>>)

\* Lines 73-112 of configure(): the components of the base string.
demo_uuid_base_parts(env, wd, av) ==
    LET base_dir_original_path == Path(Val(getenv(env, UUID_BASE)))
        base_dir_resolved_path == Resolve(base_dir_original_path, wd)
        srcdir_resolved_path == Resolve(Path(wd), wd)
        srcdir_relative == RelativeTo(srcdir_resolved_path, base_dir_resolved_path)
        srcdir_part == IF srcdir_relative.ok THEN PathStr(srcdir_relative.path)
                       ELSE PathStr(srcdir_resolved_path)
        env_venv_name == getenv(env, VIRTUAL_ENV)
        command_resolved_path == Resolve(Path(av[1]), wd)
        venv_resolved_path == Resolve(Path(Val(env_venv_name)), wd)
        command_relative == RelativeTo(command_resolved_path, venv_resolved_path)
        command_part == IF env_venv_name = None THEN av[1]
                        ELSE IF command_relative.ok
                             THEN PathStr(command_relative.path)
                        ELSE PathStr(command_resolved_path)
    IN  << <<"example.org">>, srcdir_part, command_part >>
            \o (IF Len(av) > 1 THEN Tail(av) ELSE <<>>)

\* Variant: an absent base-directory variable is warned about.
configure_warn_absent(env, wd, av, base) ==
    LET env_base_dir_name == getenv(env, UUID_BASE)
        base_dir_original_path == Path(Val(env_base_dir_name))
    IN  IF getenv(env, REQUESTING) = Some(NONRANDOM_REQUESTED)
        THEN [base |-> base, warned |-> "FutureWarning"]
        ELSE IF env_base_dir_name = None
        THEN [base |-> base, warned |-> "RuntimeWarning"]
        ELSE IF ~Exists(base_dir_original_path, wd)
        THEN [base |-> base, warned |-> "RuntimeWarning"]
        ELSE IF ~IsDir(base_dir_original_path, wd)
        THEN [base |-> base, warned |-> "RuntimeWarning"]
        ELSE [base   |-> Some(JoinSep(demo_uuid_base_parts(env, wd, av))),
              warned |-> NoWarning]

\* configure(): the new DEMO_UUID_BASE and the category of the warning emitted.
configure(env, wd, av, base) ==
    LET env_base_dir_name == getenv(env, UUID_BASE)
        base_dir_original_path == Path(Val(env_base_dir_name))
    IN  IF getenv(env, REQUESTING) = Some(NONRANDOM_REQUESTED)
        THEN [base |-> base, warned |-> "FutureWarning"]
        ELSE IF env_base_dir_name = None
        THEN [base |-> base, warned |-> NoWarning]
        ELSE IF ~Exists(base_dir_original_path, wd)
        THEN [base |-> base, warned |-> "RuntimeWarning"]
        ELSE IF ~IsDir(base_dir_original_path, wd)
        THEN [base |-> base, warned |-> "RuntimeWarning"]
        ELSE [base   |-> Some(JoinSep(demo_uuid_base_parts(env, wd, av))),
              warned |-> NoWarning]

\* Variant: line 146 left out.
_demo_uuid_noincrement(env, base, counter) ==
    IF getenv(env, UUID_BASE) = None
    THEN [raised |-> "ValueError", base |-> base, counter |-> counter, ret |-> None]
    ELSE IF base = None
    THEN [raised |-> "ValueError", base |-> base, counter |-> counter, ret |-> None]
    ELSE LET parts == <<Val(base), IntStr(counter)>>
         IN  [raised  |-> "",
              base    |-> base,
              counter |-> counter,
              ret     |-> Some(uuid5(NAMESPACE_URL, JoinSep(parts)))]

\* Variant: lines 146 and 147 swapped.
_demo_uuid_preincrement(env, base, counter) ==
    IF getenv(env, UUID_BASE) = None
    THEN [raised |-> "ValueError", base |-> base, counter |-> counter, ret |-> None]
    ELSE IF base = None
    THEN [raised |-> "ValueError", base |-> base, counter |-> counter, ret |-> None]
    ELSE LET parts == <<Val(base), IntStr(counter)>>
         IN  [raised  |-> "",
              base    |-> base,
              counter |-> counter + 1,
              ret     |-> Some(uuid5(NAMESPACE_URL, JoinSep(parts)))]

\* Variant: the test of the environment, line 135, left out.
_demo_uuid_noenvcheck(env, base, counter) ==
    IF base = None
    THEN [raised |-> "ValueError", base |-> base, counter |-> counter, ret |-> None]
    ELSE LET parts == <<Val(base), IntStr(counter + 1)>>
         IN  [raised  |-> "",
              base    |-> base,
              counter |-> counter + 1,
              ret     |-> Some(uuid5(NAMESPACE_URL, JoinSep(parts)))]

\* Variant: the joined parts stored back into the global.
_demo_uuid_rebase(env, base, counter) ==
    IF getenv(env, UUID_BASE) = None
    THEN [raised |-> "ValueError", base |-> base, counter |-> counter, ret |-> None]
    ELSE IF base = None
    THEN [raised |-> "ValueError", base |-> base, counter |-> counter, ret |-> None]
    ELSE LET parts == <<Val(base), IntStr(counter + 1)>>
         IN  [raised  |-> "",
              base    |-> Some(JoinSep(parts)),
              counter |-> counter + 1,
              ret     |-> Some(uuid5(NAMESPACE_URL, JoinSep(parts)))]

\* _demo_uuid(): the exception raised ("" when none), the new values of the
\* globals DEMO_UUID_BASE and DEMO_UUID_COUNTER, and the identifier returned.
_demo_uuid(env, base, counter) ==
    IF getenv(env, UUID_BASE) = None
    THEN [raised |-> "ValueError", base |-> base, counter |-> counter, ret |-> None]
    ELSE IF base = None
    THEN [raised |-> "ValueError", base |-> base, counter |-> counter, ret |-> None]
    ELSE LET parts == <<Val(base), IntStr(counter + 1)>>
         IN  [raised  |-> "",
              base    |-> base,
              counter |-> counter + 1,
              ret     |-> Some(uuid5(NAMESPACE_URL, JoinSep(parts)))]

\* Variant: the random path counts too.
local_uuid_counting(env, base, counter, bits) ==
    IF base = None
    THEN [raised |-> "", base |-> base, counter |-> counter + 1,
          ret |-> Some(uuid4(bits))]
    ELSE _demo_uuid(env, base, counter)

\* local_uuid(), with the bits uuid4 would draw
local_uuid(env, base, counter, bits) ==
    IF base = None
    THEN [raised |-> "", base |-> base, counter |-> counter,
          ret |-> Some(uuid4(bits))]
    ELSE _demo_uuid(env, base, counter)

-----------------------------------------------------------------------------
(* One process, one thread: every call runs to its end before the next.    *)

Outcome(op, warned, raised, ret) ==
    [op |-> op, warned |-> warned, raised |-> raised, ret |-> ret]

IdleThreads == [t \in {1, 2} |-> [pc |-> "idle", calls |-> 0, base |-> None,
                                  tmp |-> 0, text |-> <<>>, rets |-> <<>>]]

FreshRuns == [r \in {1, 2} |-> [pc |-> "start", base |-> None, counter |-> 0,
                                calls |-> 0, out |-> <<>>]]

\* The state after "import cdo_local_uuid" (lines 35 and 37), in any context.
Init ==
    /\ environ \in Environs
    /\ cwd \in WorkDirs
    /\ argv \in ArgVectors
    /\ DEMO_UUID_BASE = None
    /\ DEMO_UUID_COUNTER = 0
    /\ last = Outcome("import", NoWarning, "", None)
    /\ seen = None
    /\ runs = FreshRuns
    /\ threads = IdleThreads

Configure ==
    LET r == configure(environ, cwd, argv, DEMO_UUID_BASE)
    IN  /\ DEMO_UUID_BASE' = r.base
        /\ last' = Outcome("configure", r.warned, "", None)
        /\ UNCHANGED <<environ, cwd, argv, DEMO_UUID_COUNTER, seen, runs, threads>>

\* seen may take up any identifier the deterministic path returns, with the
\* globals it was derived from.
Remember(r) ==
    \/ seen' = seen
    \/ /\ r.ret # None
       /\ Val(r.ret).version = 5
       /\ seen' = Some([base |-> DEMO_UUID_BASE, counter |-> r.counter,
                        id |-> Val(r.ret)])

LocalUuid ==
    /\ DEMO_UUID_COUNTER < MaxCounter
    /\ \E bits \in RandomBits :
         LET r == local_uuid(environ, DEMO_UUID_BASE, DEMO_UUID_COUNTER, bits)
         IN  /\ DEMO_UUID_BASE' = r.base
             /\ DEMO_UUID_COUNTER' = r.counter
             /\ last' = Outcome("local_uuid", NoWarning, r.raised, r.ret)
             /\ Remember(r)
    /\ UNCHANGED <<environ, cwd, argv, runs, threads>>

\* _demo_uuid() called directly, which its documentation advises against.
DemoUuid ==
    /\ DEMO_UUID_COUNTER < MaxCounter
    /\ LET r == _demo_uuid(environ, DEMO_UUID_BASE, DEMO_UUID_COUNTER)
       IN  /\ DEMO_UUID_BASE' = r.base
           /\ DEMO_UUID_COUNTER' = r.counter
           /\ last' = Outcome("_demo_uuid", NoWarning, r.raised, r.ret)
           /\ Remember(r)
    /\ UNCHANGED <<environ, cwd, argv, runs, threads>>

\* The caller changes the context between calls: os.environ, os.chdir, sys.argv.
PutEnv ==
    /\ \E n \in EnvNames : \E v \in EnvValues(n) :
         /\ v # environ[n]
         /\ environ' = [environ EXCEPT ![n] = v]
    /\ last' = Outcome("context", NoWarning, "", None)
    /\ UNCHANGED <<cwd, argv, DEMO_UUID_BASE, DEMO_UUID_COUNTER, seen, runs, threads>>

Chdir ==
    /\ \E d \in WorkDirs : d # cwd /\ cwd' = d
    /\ last' = Outcome("context", NoWarning, "", None)
    /\ UNCHANGED <<environ, argv, DEMO_UUID_BASE, DEMO_UUID_COUNTER, seen, runs, threads>>

SetArgv ==
    /\ \E a \in ArgVectors : a # argv /\ argv' = a
    /\ last' = Outcome("context", NoWarning, "", None)
    /\ UNCHANGED <<environ, cwd, DEMO_UUID_BASE, DEMO_UUID_COUNTER, seen, runs, threads>>

Next == Configure \/ LocalUuid \/ DemoUuid \/ PutEnv \/ Chdir \/ SetArgv

Spec == Init /\ [][Next]_vars

-----------------------------------------------------------------------------
(* Two process runs started in the same context, which stays as it is:     *)
(* each run imports the module, calls configure() once and then            *)
(* local_uuid() again and again.                                           *)

RunConfigure(r) ==
    /\ runs[r].pc = "start"
    /\ runs' = [runs EXCEPT
                  ![r].base = configure(environ, cwd, argv, runs[r].base).base,
                  ![r].pc = "ready"]
    /\ UNCHANGED <<environ, cwd, argv, DEMO_UUID_BASE, DEMO_UUID_COUNTER, last,
                   seen, threads>>

RunLocalUuid(r) ==
    /\ runs[r].pc = "ready"
    /\ runs[r].calls < MaxRunCalls
    /\ \E bits \in RandomBits :
         LET res == local_uuid(environ, runs[r].base, runs[r].counter, bits)
         IN  runs' = [runs EXCEPT
                        ![r].base = res.base,
                        ![r].counter = res.counter,
                        ![r].calls = @ + 1,
                        ![r].out = IF res.ret # None /\ Val(res.ret).version = 5
                                   THEN Append(@, Val(res.ret)) ELSE @]
    /\ UNCHANGED <<environ, cwd, argv, DEMO_UUID_BASE, DEMO_UUID_COUNTER, last,
                   seen, threads>>

NextRuns == \E r \in {1, 2} : RunConfigure(r) \/ RunLocalUuid(r)

SpecRuns == Init /\ [][NextRuns]_vars

-----------------------------------------------------------------------------
(* One process whose main thread calls configure() and then lets two       *)
(* threads call local_uuid().  The code takes no lock, so a thread may be   *)
(* preempted between any two reads or writes of the globals: line 146,     *)
(* DEMO_UUID_COUNTER += 1, is a load and a store, and line 147 reads the    *)
(* global again.                                                           *)

MainConfigure == last.op = "import" /\ Configure

Started == last.op = "configure"

Finish(t, ret) ==
    [threads EXCEPT ![t].pc = "idle", ![t].calls = @ + 1,
                    ![t].rets = Append(@, ret)]

\* Lines 162-143: local_uuid() tests DEMO_UUID_BASE, and _demo_uuid() its
\* preconditions; none of what they read is written by the other thread.
ThreadCall(t) ==
    /\ Started
    /\ threads[t].pc = "idle"
    /\ threads[t].calls < MaxCalls
    /\ \E bits \in RandomBits :
         threads' =
           IF DEMO_UUID_BASE = None THEN Finish(t, Some(uuid4(bits)))
           ELSE IF getenv(environ, UUID_BASE) = None THEN Finish(t, None)
           ELSE [threads EXCEPT ![t].pc = "load", ![t].base = DEMO_UUID_BASE]
    /\ UNCHANGED <<environ, cwd, argv, DEMO_UUID_BASE, DEMO_UUID_COUNTER, last,
                   seen, runs>>

\* Line 146, the load of DEMO_UUID_COUNTER
ThreadLoad(t) ==
    /\ threads[t].pc = "load"
    /\ threads' = [threads EXCEPT ![t].pc = "store", ![t].tmp = DEMO_UUID_COUNTER]
    /\ UNCHANGED <<environ, cwd, argv, DEMO_UUID_BASE, DEMO_UUID_COUNTER, last,
                   seen, runs>>

\* Line 146, the store of the sum
ThreadStore(t) ==
    /\ threads[t].pc = "store"
    /\ DEMO_UUID_COUNTER' = threads[t].tmp + 1
    /\ threads' = [threads EXCEPT ![t].pc = "read"]
    /\ UNCHANGED <<environ, cwd, argv, DEMO_UUID_BASE, last, seen, runs>>

\* Line 147: parts.append(str(DEMO_UUID_COUNTER))
ThreadRead(t) ==
    /\ threads[t].pc = "read"
    /\ threads' = [threads EXCEPT ![t].pc = "return",
                                  ![t].text = IntStr(DEMO_UUID_COUNTER)]
    /\ UNCHANGED <<environ, cwd, argv, DEMO_UUID_BASE, DEMO_UUID_COUNTER, last,
                   seen, runs>>

\* Line 149
ThreadReturn(t) ==
    /\ threads[t].pc = "return"
    /\ threads' = Finish(t, Some(uuid5(NAMESPACE_URL,
                                       JoinSep(<<Val(threads[t].base),
                                                 threads[t].text>>))))
    /\ UNCHANGED <<environ, cwd, argv, DEMO_UUID_BASE, DEMO_UUID_COUNTER, last,
                   seen, runs>>

ThreadStep(t) ==
    ThreadCall(t) \/ ThreadLoad(t) \/ ThreadStore(t) \/ ThreadRead(t) \/ ThreadReturn(t)

NextThreads == MainConfigure \/ \E t \in {1, 2} : ThreadStep(t)

SpecThreads == Init /\ [][NextThreads]_vars

-----------------------------------------------------------------------------
(* Properties. *)

\* The step just taken returned an identifier from the deterministic path.
Generated ==
    /\ last'.op \in {"local_uuid", "_demo_uuid"}
    /\ last'.ret # None
    /\ Val(last'.ret).version = 5

\* C1: local_uuid() never fails: every call returns an identifier and raises
\* nothing, and the identifier is a random one whenever DEMO_UUID_BASE is unset.
C1_LocalUuidNeverFails ==
    last.op = "local_uuid" =>
        /\ last.raised = ""
        /\ last.ret # None
        /\ (DEMO_UUID_BASE = None => Val(last.ret).version = 4)

\* The decimal numerals, digit by digit.
Decimal ==
    << <<"1">>, <<"2">>, <<"3">>, <<"4">>, <<"5">>, <<"6">>, <<"7">>, <<"8">>,
       <<"9">>, <<"1", "0">>, <<"1", "1">>, <<"1", "2">>, <<"1", "3">>,
       <<"1", "4">>, <<"1", "5">> >>

Shorter(a, b) == IF Len(a) <= Len(b) THEN Len(a) ELSE Len(b)

\* C2: two runs started in the same context and armed by configure() return the
\* same k-th identifier for every k, and that identifier is the version 5,
\* URL-namespace identifier of base_string, "/" and the decimal numeral of k.
C2_Reproducible ==
    /\ \A r \in {1, 2} :
         (runs[r].pc = "ready" /\ runs[r].base # None) =>
            /\ Len(runs[r].out) = runs[r].calls
            /\ \A k \in 1..Len(runs[r].out) :
                 runs[r].out[k] =
                    uuid5(NAMESPACE_URL, Val(runs[r].base) \o <<SEP>> \o Decimal[k])
    /\ (runs[1].pc = "ready" /\ runs[2].pc = "ready") =>
            /\ runs[1].base = runs[2].base
            /\ \A k \in 1..Shorter(runs[1].out, runs[2].out) :
                 runs[1].out[k] = runs[2].out[k]

\* Both runs armed, each past its tenth identifier, one further on than the other.
C2_Witness ==
    /\ Len(runs[1].out) >= 10
    /\ Len(runs[2].out) > Len(runs[1].out)

C3_CounterStep ==
    /\ DEMO_UUID_COUNTER' >= DEMO_UUID_COUNTER
    /\ Generated => DEMO_UUID_COUNTER' = DEMO_UUID_COUNTER + 1
    /\ ~Generated => DEMO_UUID_COUNTER' = DEMO_UUID_COUNTER
    /\ (Generated /\ seen # None /\ Val(seen).base = DEMO_UUID_BASE) =>
            /\ Val(seen).counter # DEMO_UUID_COUNTER'
            /\ Val(seen).id # Val(last'.ret)

\* C3: the counter starts at 0, grows by exactly 1 on every deterministic
\* generation and is changed by nothing else (configure() included), and a
\* deterministic generation never uses the (base_string, counter) pair, nor
\* returns the identifier, of an earlier one made with the same base_string.
C3_UniqueInSequence == (DEMO_UUID_COUNTER = 0) /\ [][C3_CounterStep]_vars

\* A second deterministic generation under the base string of an earlier one.
C3_Witness ==
    /\ last.op = "local_uuid"
    /\ last.ret # None
    /\ Val(last.ret).version = 5
    /\ seen # None
    /\ Val(seen).base = DEMO_UUID_BASE
    /\ Val(seen).counter < DEMO_UUID_COUNTER

C4_RandomStep ==
    (DEMO_UUID_BASE = None /\ last'.op = "local_uuid") =>
        /\ last'.raised = ""
        /\ last'.ret # None
        /\ Val(last'.ret).version = 4
        /\ DEMO_UUID_BASE' = DEMO_UUID_BASE
        /\ DEMO_UUID_COUNTER' = DEMO_UUID_COUNTER

\* C4: while base_string is unset the counter is 0, and a local_uuid() call
\* made then returns a version 4 identifier and leaves both as they are.
C4_UnsetMeansRandom ==
    [](DEMO_UUID_BASE = None => DEMO_UUID_COUNTER = 0) /\ [][C4_RandomStep]_vars

\* local_uuid() has returned a random identifier, base_string unset although
\* the base-directory variable is in the environment.
C4_Witness ==
    /\ last.op = "local_uuid"
    /\ DEMO_UUID_BASE = None
    /\ last.ret # None
    /\ Val(last.ret).version = 4
    /\ getenv(environ, UUID_BASE) # None

\* C5 as stated: once base_string is set, no operation changes it.
C5_BaseFixedOnceSet ==
    [][DEMO_UUID_BASE # None => DEMO_UUID_BASE' = DEMO_UUID_BASE]_vars

C5_BaseStep ==
    /\ DEMO_UUID_BASE' # DEMO_UUID_BASE => last'.op = "configure"
    /\ (last.op = "configure" /\ last'.op = "configure") =>
            DEMO_UUID_BASE' = DEMO_UUID_BASE

\* C5 amended: once set, base_string is changed by nothing but a further
\* configure() call: local_uuid(), _demo_uuid() and changes of the working
\* directory, argument vector or environment leave it as it is, and so does a
\* configure() repeated at once, the context unchanged.
C5_BaseChangedOnlyByConfigure == [][C5_BaseStep]_vars

\* configure() has replaced a base string under which an identifier was made.
C5_Witness ==
    /\ last.op = "configure"
    /\ seen # None
    /\ DEMO_UUID_BASE # None
    /\ DEMO_UUID_BASE # Val(seen).base

C6_AbsentStep ==
    /\ ( /\ last'.op = "configure"
         /\ getenv(environ, UUID_BASE) = None
         /\ getenv(environ, REQUESTING) # Some(NONRANDOM_REQUESTED) ) =>
            /\ last'.warned = NoWarning
            /\ DEMO_UUID_BASE' = DEMO_UUID_BASE
            /\ DEMO_UUID_COUNTER' = DEMO_UUID_COUNTER
    /\ ( /\ last.op = "configure"
         /\ getenv(environ, UUID_BASE) = None
         /\ DEMO_UUID_BASE = None
         /\ last'.op = "local_uuid" ) =>
            /\ last'.raised = ""
            /\ last'.ret # None
            /\ Val(last'.ret).version = 4
            /\ DEMO_UUID_COUNTER' = DEMO_UUID_COUNTER

NotADirectory ==
    /\ getenv(environ, UUID_BASE) # None
    /\ Stat(Path(Val(getenv(environ, UUID_BASE))), cwd) # "dir"

\* C7: configure() called with the deprecated variable at its sentinel, or with
\* the base-directory variable naming no directory, warns, returns and leaves
\* base_string unset.
C7_WarningsDisarm ==
    ( /\ last.op = "configure"
      /\ (getenv(environ, REQUESTING) = Some(NONRANDOM_REQUESTED) \/ NotADirectory) ) =>
        /\ last.warned # NoWarning
        /\ last.raised = ""
        /\ DEMO_UUID_BASE = None

C8_RejectStep ==
    ( /\ last'.op = "_demo_uuid"
      /\ (getenv(environ, UUID_BASE) = None \/ DEMO_UUID_BASE = None) ) =>
        /\ last'.raised = "ValueError"
        /\ last'.ret = None
        /\ DEMO_UUID_COUNTER' = DEMO_UUID_COUNTER
        /\ DEMO_UUID_BASE' = DEMO_UUID_BASE

\* C8: _demo_uuid() called with the base-directory variable absent or with
\* base_string unset raises and returns nothing, counter and base_string kept.
C8_MisuseRejected == [][C8_RejectStep]_vars

\* _demo_uuid() has raised in armed mode, the variable gone from the environment.
C8_Witness ==
    /\ last.op = "_demo_uuid"
    /\ last.raised = "ValueError"
    /\ getenv(environ, UUID_BASE) = None
    /\ DEMO_UUID_BASE # None
    /\ DEMO_UUID_COUNTER > 0

\* configure() has just stored a base string.
Armed ==
    /\ last.op = "configure"
    /\ last.warned = NoWarning
    /\ getenv(environ, UUID_BASE) # None

\* Directory a is p itself or above it.
IsAncestor(a, p) == \E n \in 0..Len(p) : SubSeq(p, 1, n) = a

\* The text of location p taken from the directory a above it.
Below(a, p) ==
    IF Len(p) = Len(a) THEN <<DOT>>
    ELSE JoinSep(SubSeq(p, Len(a) + 1, Len(p)))

Absolute(p) == <<SEP>> \o JoinSep(p)

\* Where the text t leads to, links followed, from the working directory.
Real(t) == Resolve(Path(t), cwd).parts

CwdComponent ==
    LET b == Real(Val(getenv(environ, UUID_BASE)))
        w == Real(cwd)
    IN  IF IsAncestor(b, w) THEN Below(b, w) ELSE Absolute(w)

CmdComponent ==
    LET venv == getenv(environ, VIRTUAL_ENV)
        c == Real(argv[1])
    IN  IF venv = None THEN argv[1]
        ELSE IF IsAncestor(Real(Val(venv)), c) THEN Below(Real(Val(venv)), c)
        ELSE Absolute(c)

\* "/" and argv[i], for every i from 2 on, in order.
RECURSIVE ArgsFrom(_)
ArgsFrom(i) ==
    IF i > Len(argv) THEN <<>> ELSE <<SEP>> \o argv[i] \o ArgsFrom(i + 1)

\* C9: the base string configure() stores is "example.org", the working
\* directory (below the base directory when that is it or above it, else
\* absolute), the command (argv[0] as given without VIRTUAL_ENV, else below the
\* VIRTUAL_ENV location or absolute) and then each of argv[1:], joined by "/";
\* so in /w/s, with the base directory /l -> /w, VIRTUAL_ENV /v and the
\* arguments ./t a/b c, it is example.org/s//w/s/t/a/b/c.
C9_BaseStringLayout ==
    Armed =>
        /\ DEMO_UUID_BASE =
              Some(<<"example.org", SEP>> \o CwdComponent \o <<SEP>>
                      \o CmdComponent \o ArgsFrom(2))
        /\ ( /\ getenv(environ, UUID_BASE) = Some(<<SEP, "l">>)
             /\ getenv(environ, VIRTUAL_ENV) = Some(<<SEP, "v">>)
             /\ cwd = <<SEP, "w", SEP, "s">>
             /\ Len(argv) = 3 ) =>
                DEMO_UUID_BASE =
                    Some(<<"example.org", SEP, "s", SEP, SEP, "w", SEP, "s", SEP, "t",
                           SEP, "a", SEP, "b", SEP, "c">>)

\* configure() has armed below a base directory named through a link, in a
\* virtual environment, with further arguments.
C9_Witness ==
    /\ Armed
    /\ getenv(environ, UUID_BASE) = Some(<<SEP, "l">>)
    /\ getenv(environ, VIRTUAL_ENV) # None
    /\ cwd = <<SEP, "w", SEP, "s">>
    /\ Len(argv) > 1

\* The deterministic identifiers the threads' calls have returned.
ThreadReturns ==
    { <<t, i>> \in {1, 2} \X (1..MaxCalls) :
        /\ i <= Len(threads[t].rets)
        /\ threads[t].rets[i] # None
        /\ Val(threads[t].rets[i]).version = 5 }

\* C10: no two local_uuid() calls of concurrent threads in armed mode return
\* the same identifier, whatever the interleaving.
C10_ThreadsDistinct ==
    \A a \in ThreadReturns : \A b \in ThreadReturns :
        a # b => threads[a[1]].rets[a[2]] # threads[b[1]].rets[b[2]]

=============================================================================
